---- MODULE Spec2Model ----
(***************************************************************************)
(* grxiv: a minimal OpenGL image viewer.  The model covers main(), the     *)
(* ImageViewer / ImageGLWidget constructors, initializeGL, paintGL, the    *)
(* wheel and key handlers, loadImage / loadNextImage / loadPreviousImage,  *)
(* updateTexture and the destructor, for the two source variants           *)
(* src/grxiv.cpp ("grxiv") and src/unnamed/part_000 ("part_000").          *)
(*                                                                         *)
(* Encodings.                                                              *)
(*  - A bitmap is named by the entry it was decoded from: the bitmap of    *)
(*    the entry at (0-based) index k is k + 1, NullImage is the null       *)
(*    QImage.  A texture is named by the bitmap uploaded into it,          *)
(*    NoTexture is the nullptr.                                            *)
(*  - zoomLevel is a float; it is kept in hundredths (ZoomOne is 1.0f) and  *)
(*    a product is rounded to two significant decimal digits, the way a    *)
(*    float product is rounded to its 24 significant bits.                 *)
(*  - A file name is the sequence of its character codes.  The content of  *)
(*    a file is "good" (QImage::load returns true) or "bad" (unreadable    *)
(*    or undecodable: QImage::load returns false and leaves the image      *)
(*    null).                                                               *)
(***************************************************************************)
EXTENDS Integers, Sequences, FiniteSets, TLC

\* Longest directory listing explored.
MaxFiles == 2

\* zoomLevel(1.0f), the 0.1f and 10.0f of the clamp, in hundredths.
ZoomOne == 100
ZoomMin == 10
ZoomMax == 1000

NullImage == 0
NoTexture == 0

\* The value of frame before paintGL has run.
NoFrame == -1

Variants == {"grxiv", "part_000"}
ArgKinds == {"none", "dir", "file", "invalid"}
StdinKinds == {"empty", "unreadable", "null", "image"}
FileKinds == {"good", "bad"}
GLResults == {"ok", "linkFail", "noBuffer"}

VARIABLES
    variant,            \* which source file is built
    args,               \* what the positional argument names
    stdinData,          \* what standard input holds
    dirEntries,         \* the entries of the directory the path names
    fsFiles,            \* the matching files of the path, sorted by name
    pc,                 \* position of main: "main", "constructed", "exec", "exited"
    exitCode,           \* value returned by main, -1 while running
    windowShown,        \* viewer.show() was called
    initialized,        \* initializeGL has run
    quitRequested,      \* the event loop was told to exit
    imageFiles,         \* ImageGLWidget::imageFiles
    image,              \* ImageGLWidget::image
    shaderProgram,      \* "null", "unlinked" or "linked"
    texture,            \* ImageGLWidget::texture
    liveTextures,       \* GL textures created and not yet destroyed
    zoomLevel,          \* ImageGLWidget::zoomLevel
    currentImageIndex,  \* ImageGLWidget::currentImageIndex
    title,              \* the window title
    frame,              \* texture drawn by the last paintGL, NoTexture if it only
                        \* cleared, NoFrame before the first paintGL
    contextCurrent,     \* the widget's OpenGL context is the current one
    unboundGLCall,      \* some OpenGL call was made while it was not
    imageSize,          \* width and height of the decoded image
    windowSize,         \* width and height of the widget
    mvp,                \* the x and y scale factors paintGL gave the shader
    lastEvent,          \* the last handler that ran and what its load did
    loadedOnce,         \* some image was decoded successfully
    firstLoadFailed     \* the loadImage(0) of initializeGL failed

vars == <<variant, args, stdinData, dirEntries, fsFiles, pc, exitCode, windowShown, initialized,
          quitRequested, imageFiles, image, shaderProgram, texture, liveTextures,
          zoomLevel, currentImageIndex, title, frame, contextCurrent,
          unboundGLCall, imageSize, windowSize, mvp, lastEvent, loadedOnce, firstLoadFailed>>

envVars == <<variant, args, stdinData, dirEntries, fsFiles>>

\* The geometry of a frame, which only the frames of SpecTransform follow.
viewVars == <<imageSize, windowSize, mvp>>

----------------------------------------------------------------------------
\* The widget's fields as one record, so that a handler is a function of it.

Widget ==
    [image |-> image, shaderProgram |-> shaderProgram, texture |-> texture,
     liveTextures |-> liveTextures, zoomLevel |-> zoomLevel,
     currentImageIndex |-> currentImageIndex, title |-> title,
     quit |-> quitRequested, load |-> "none",
     upload |-> "none", destroyed |-> FALSE, error |-> FALSE,
     ctx |-> contextCurrent, unbound |-> unboundGLCall]

GenericTitle == [kind |-> "grxiv", pos |-> 0, total |-> 0]
PathTitle == [kind |-> "path", pos |-> 0, total |-> 0]
PositionTitle(index, total) == [kind |-> "position", pos |-> index + 1, total |-> total]

\* QApplication::quit(): leaves the event loop; does nothing when no event
\* loop is running (running = FALSE: the call is made before app.exec()).
quit(w, running) == IF running THEN [w EXCEPT !.quit = TRUE] ELSE w

\* QOpenGLWidget::makeCurrent() and doneCurrent() of an initialized widget.
makeCurrent(w) == [w EXCEPT !.ctx = TRUE]
doneCurrent(w) == [w EXCEPT !.ctx = FALSE]

\* An OpenGL call: it has a context to act on only when one is current.
glCall(w) == [w EXCEPT !.unbound = @ \/ ~w.ctx]

updateTextureLeak(w, created) ==
    IF w.image # NullImage /\ created
    THEN [w EXCEPT !.texture = w.image, !.liveTextures = @ + 1]
    ELSE w

updateTextureKeepHandle(w, created) ==
    LET w1 == IF w.texture # NoTexture
              THEN [w EXCEPT !.texture = NoTexture, !.liveTextures = @ - 1,
                             !.destroyed = TRUE]
              ELSE w
    IN IF w1.image # NullImage
       THEN [w1 EXCEPT !.texture = w1.image, !.liveTextures = @ + 1,
                       !.upload = IF created THEN "ok" ELSE "fail",
                       !.error = ~created]
       ELSE w1

updateTextureNoMakeCurrent(w, created) ==
    LET w1 == IF w.texture # NoTexture
              THEN glCall([w EXCEPT !.texture = NoTexture, !.liveTextures = @ - 1,
                                    !.destroyed = TRUE])
              ELSE w
        w2 == IF w1.image # NullImage
              THEN IF created
                   THEN glCall([w1 EXCEPT !.texture = w1.image, !.liveTextures = @ + 1,
                                          !.upload = "ok"])
                   ELSE glCall([w1 EXCEPT !.texture = NoTexture,
                                          !.upload = "fail", !.error = TRUE])
              ELSE w1
    IN doneCurrent(w2)

\* updateTexture(); created: whether QOpenGLTexture(image) got a GL texture.
\* texture->destroy() and the QOpenGLTexture constructor are OpenGL calls.
updateTexture(w, created) ==
    LET w0 == makeCurrent(w)
        w1 == IF w0.texture # NoTexture
              THEN glCall([w0 EXCEPT !.texture = NoTexture, !.liveTextures = @ - 1,
                                     !.destroyed = TRUE])
              ELSE w0
        w2 == IF w1.image # NullImage
              THEN IF created
                   THEN glCall([w1 EXCEPT !.texture = w1.image, !.liveTextures = @ + 1,
                                          !.upload = "ok"])
                   ELSE glCall([w1 EXCEPT !.texture = NoTexture,
                                          !.upload = "fail", !.error = TRUE])
              ELSE w1
    IN doneCurrent(w2)

\* What loadImage does when image.load() or the isNull() test fails.
loadFailed(w, v, running) ==
    LET w1 == [w EXCEPT !.error = TRUE]
    IN IF v = "grxiv" THEN quit(w1, running) ELSE w1

loadImageKeepZoom(w, index, files, v, running, created) ==
    IF index < 0 \/ index >= Len(files)
    THEN w
    ELSE LET ok == files[index + 1].content = "good"
             w2 == [w EXCEPT !.currentImageIndex = index,
                             !.title = IF v = "grxiv"
                                       THEN PositionTitle(index, Len(files))
                                       ELSE @,
                             !.image = IF ok THEN index + 1 ELSE NullImage,
                             !.load = IF ok THEN "ok" ELSE "fail"]
         IN IF ok THEN updateTexture(w2, created) ELSE loadFailed(w2, v, running)

\* loadImage(index) over the list files.
loadImage(w, index, files, v, running, created) ==
    IF index < 0 \/ index >= Len(files)
    THEN w
    ELSE LET w1 == [w EXCEPT !.currentImageIndex = index,
                             !.title = IF v = "grxiv"
                                       THEN PositionTitle(index, Len(files))
                                       ELSE @]
             ok == files[index + 1].content = "good"
             w2 == [w1 EXCEPT !.image = IF ok THEN index + 1 ELSE NullImage,
                              !.load = IF ok THEN "ok" ELSE "fail"]
         IN IF ~ok
            THEN loadFailed(w2, v, running)
            ELSE IF w2.image = NullImage
                 THEN loadFailed(w2, v, running)
                 ELSE updateTexture([w2 EXCEPT !.zoomLevel = ZoomOne], created)

loadNextImageWrap(w, files, v, running, created) ==
    IF Len(files) = 0
    THEN w
    ELSE loadImage(w, (w.currentImageIndex + 1) % Len(files), files, v, running, created)

loadNextImage(w, files, v, running, created) ==
    IF w.currentImageIndex + 1 < Len(files)
    THEN loadImage(w, w.currentImageIndex + 1, files, v, running, created)
    ELSE w

loadPreviousImage(w, files, v, running, created) ==
    IF w.currentImageIndex - 1 >= 0
    THEN loadImage(w, w.currentImageIndex - 1, files, v, running, created)
    ELSE w

clampZoomNone(z) == z

\* qMax(0.1f, qMin(zoomLevel, 10.0f))
clampZoom(z) ==
    LET lo == IF z < ZoomMax THEN z ELSE ZoomMax
    IN IF ZoomMin > lo THEN ZoomMin ELSE lo

\* The float product a * b of two values in hundredths, rounded to nearest.
floatMul(a, b) ==
    LET p == a * b
    IN IF p < 10000 THEN (p + 50) \div 100
       ELSE IF p < 100000 THEN ((p + 500) \div 1000) * 10
       ELSE ((p + 5000) \div 10000) * 100

\* wheelEvent: delta is 1.1f when the wheel turns up, else 0.9f.
wheelEvent(w, up) ==
    LET delta == IF up THEN 110 ELSE 90
    IN [w EXCEPT !.zoomLevel = clampZoom(floatMul(w.zoomLevel, delta))]

\* initializeGL; gl: how far the shader and buffer set-up gets.  The shader
\* set-up makes OpenGL calls whatever comes of it.
initializeGL(w, files, v, running, gl, created) ==
    IF gl = "linkFail"
    THEN glCall([w EXCEPT !.shaderProgram = "unlinked", !.error = TRUE])
    ELSE LET w1 == glCall([w EXCEPT !.shaderProgram = "linked"])
         IN IF gl = "noBuffer"
            THEN [w1 EXCEPT !.error = TRUE]
            ELSE IF Len(files) # 0
                 THEN IF v = "part_000" \/ w1.image = NullImage
                      THEN loadImage(w1, 0, files, v, running, created)
                      ELSE updateTexture(w1, created)
                 ELSE w1

\* resizeGL: glViewport.
resizeGL(w) == glCall(w)

\* ~ImageGLWidget: delete texture destroys the GL texture it holds, and
\* glDeleteBuffers follows, between makeCurrent() and doneCurrent().
destroyWidget(w) ==
    LET w0 == makeCurrent(w)
        w1 == IF w0.texture # NoTexture
              THEN glCall([w0 EXCEPT !.texture = NoTexture, !.liveTextures = @ - 1])
              ELSE w0
    IN doneCurrent(glCall(w1))

paintGLNoShaderTest(w) == w.texture

\* paintGL: the texture a frame draws, NoTexture when it only clears.
paintGL(w) ==
    IF w.texture = NoTexture \/ w.shaderProgram # "linked"
    THEN NoTexture
    ELSE w.texture

----------------------------------------------------------------------------
\* The transform of paintGL.  A float is kept as the exact fraction
\* <<numerator, denominator>> in lowest terms.

MaxDim == 3

RECURSIVE gcd(_, _)
gcd(a, b) == IF b = 0 THEN a ELSE gcd(b, a % b)

frac(n, d) == LET g == gcd(n, d) IN <<n \div g, d \div g>>
fracDiv(a, b) == frac(a[1] * b[2], a[2] * b[1])
fracGreater(a, b) == a[1] * b[2] > b[1] * a[2]
One == <<1, 1>>

\* ImageViewer: resize(800, 600)
InitialWindowSize == <<800, 600>>

viewportScaleFill(img, win) ==
    LET imageAspect == frac(img[1], img[2])
        windowAspect == frac(win[1], win[2])
    IN IF fracGreater(windowAspect, imageAspect)
       THEN <<One, fracDiv(windowAspect, imageAspect)>>
       ELSE <<fracDiv(imageAspect, windowAspect), One>>

\* scaleX and scaleY of paintGL for an image of size img in a widget of
\* size win.
viewportScale(img, win) ==
    LET imageAspect == frac(img[1], img[2])
        windowAspect == frac(win[1], win[2])
    IN IF fracGreater(imageAspect, windowAspect)
       THEN <<One, fracDiv(windowAspect, imageAspect)>>
       ELSE <<fracDiv(imageAspect, windowAspect), One>>

\* mvp.scale(scaleX * zoomLevel, scaleY * zoomLevel, 1.0f), zoom in hundredths.
viewportTransform(img, win, zoom) ==
    LET s == viewportScale(img, win)
    IN <<frac(s[1][1] * zoom, s[1][2] * ZoomOne), frac(s[2][1] * zoom, s[2][2] * ZoomOne)>>

\* Write a widget record back to the variables.
Commit(w) ==
    /\ image' = w.image
    /\ shaderProgram' = w.shaderProgram
    /\ texture' = w.texture
    /\ liveTextures' = w.liveTextures
    /\ zoomLevel' = w.zoomLevel
    /\ currentImageIndex' = w.currentImageIndex
    /\ title' = w.title
    /\ quitRequested' = w.quit
    /\ contextCurrent' = w.ctx
    /\ unboundGLCall' = w.unbound

\* Whether the error branches of variant v report: src/unnamed/part_000
\* writes a qDebug line or shows a QMessageBox in each of them,
\* src/grxiv.cpp does neither anywhere.
reportsErrors(v) == v = "part_000"

Event(name, w) ==
    [ev |-> name, load |-> w.load, zoomed |-> (zoomLevel # ZoomOne),
     upload |-> w.upload, destroyed |-> w.destroyed, error |-> w.error,
     logged |-> (w.error /\ reportsErrors(variant))]

----------------------------------------------------------------------------
\* Constructors.

widgetFromPathIndexZero(w, files, v) ==
    LET w1 == [w EXCEPT !.currentImageIndex = 0]
    IN IF Len(files) = 0
       THEN IF v = "grxiv"
            THEN quit([w1 EXCEPT !.error = TRUE], FALSE)
            ELSE [w1 EXCEPT !.error = TRUE]
       ELSE w1

\* ImageGLWidget(const QString& path): files is what the path resolves to,
\* the sorted matching entries of a directory, the one file, or nothing.
widgetFromPath(w, files, v) ==
    IF Len(files) = 0
    THEN IF v = "grxiv"
         THEN quit([w EXCEPT !.error = TRUE], FALSE)
         ELSE [w EXCEPT !.error = TRUE]
    ELSE w

widgetFromImageNoIndex(w, img) ==
    LET w1 == [w EXCEPT !.image = img]
    IN IF w1.image = NullImage THEN quit([w1 EXCEPT !.error = TRUE], FALSE) ELSE w1

\* ImageGLWidget(const QImage& clipboardImage)
widgetFromImage(w, img) ==
    LET w1 == [w EXCEPT !.currentImageIndex = 0, !.image = img]
    IN IF w1.image = NullImage THEN quit([w1 EXCEPT !.error = TRUE], FALSE) ELSE w1

\* The placeholder entry "clipboard_image" names no readable image file.
ClipboardFiles ==
    <<[name |-> <<99, 108, 105, 112, 98, 111, 97, 114, 100, 95, 105, 109, 97, 103, 101>>,
       content |-> "bad"]>>

----------------------------------------------------------------------------
\* The directory listing of the constructor.  A directory entry is a record
\* [name, file, content]: file tells a regular file from a subdirectory.

\* dir.setNameFilters: "*.jpg", "*.jpeg", "*.png", "*.bmp", "*.gif", each
\* kept as the suffix that follows the "*".
nameFilters ==
    { <<46, 106, 112, 103>>, <<46, 106, 112, 101, 103>>, <<46, 112, 110, 103>>,
      <<46, 98, 109, 112>>, <<46, 103, 105, 102>> }

\* dir.setFilter(QDir::Files | QDir::NoDotAndDotDot)
dirFilter == {"Files", "NoDotAndDotDot"}

\* dir.setSorting(QDir::Name)
dirSorting == {"Name"}

toLower(c) == IF c >= 65 /\ c <= 90 THEN c + 32 ELSE c

lowerCase(s) == [i \in 1..Len(s) |-> toLower(s[i])]

endsWith(s, t) ==
    /\ Len(s) >= Len(t)
    /\ SubSeq(s, Len(s) - Len(t) + 1, Len(s)) = t

matchesExactCase(name) == \E f \in nameFilters : endsWith(name, f)

\* A name filter matches without regard to case unless the filter holds
\* QDir::CaseSensitive.
matchesNameFilters(name) ==
    IF "CaseSensitive" \in dirFilter
    THEN \E f \in nameFilters : endsWith(name, f)
    ELSE \E f \in nameFilters : endsWith(lowerCase(name), f)

\* On Unix a hidden file is one whose name starts with a dot.
isHidden(name) == Len(name) >= 1 /\ name[1] = 46

\* Whether the listing holds the entry: files only, hidden ones only with
\* QDir::Hidden, and the name must match a name filter.
listed(entry) ==
    /\ IF entry.file THEN "Files" \in dirFilter ELSE "Dirs" \in dirFilter
    /\ isHidden(entry.name) => "Hidden" \in dirFilter
    /\ matchesNameFilters(entry.name)

\* QString::compare of two names: the order of the character codes.
nameLess(a, b) ==
    \E i \in 1..(Len(a) + 1) :
        /\ i <= Len(b)
        /\ \A j \in 1..(i - 1) : a[j] = b[j]
        /\ i = Len(a) + 1 \/ a[i] < b[i]

\* QDir::Name, QDir::IgnoreCase not set.
entryLess(x, y) ==
    IF "IgnoreCase" \in dirSorting
    THEN nameLess(lowerCase(x.name), lowerCase(y.name))
    ELSE nameLess(x.name, y.name)

RECURSIVE sortEntries(_)
sortEntries(S) ==
    IF S = {}
    THEN <<>>
    ELSE LET first == CHOOSE x \in S : \A y \in S \ {x} : entryLess(x, y)
         IN <<first>> \o sortEntries(S \ {first})

RECURSIVE unsortedEntries(_)
unsortedEntries(S) ==
    IF S = {}
    THEN <<>>
    ELSE LET first == CHOOSE x \in S : \A y \in S \ {x} : entryLess(y, x)
         IN <<first>> \o unsortedEntries(S \ {first})

fileInfo(entry) == [name |-> entry.name, content |-> entry.content]

entryInfoListUnsorted(entries) ==
    LET l == unsortedEntries({x \in entries : listed(x)})
    IN [i \in 1..Len(l) |-> fileInfo(l[i])]

\* dir.entryInfoList()
entryInfoList(entries) ==
    LET l == sortEntries({x \in entries : listed(x)})
    IN [i \in 1..Len(l) |-> fileInfo(l[i])]

\* What the constructor puts into imageFiles for the path.
pathFiles(kind, entries, files) ==
    IF kind = "dir" THEN entryInfoList(entries) ELSE files

\* The directory holding the files "1.png", "2.png", ... of the contents l.
pngName(i) == <<48 + i, 46, 112, 110, 103>>
directoryOf(l) == {[name |-> pngName(i), file |-> TRUE, content |-> l[i]] : i \in 1..Len(l)}

NoEvent ==
    [ev |-> "none", load |-> "none", zoomed |-> FALSE, upload |-> "none",
     destroyed |-> FALSE, error |-> FALSE, logged |-> FALSE]
NoTitle == [kind |-> "none", pos |-> 0, total |-> 0]

FileLists == UNION {[1..n -> FileKinds] : n \in 0..MaxFiles}

\* The state before main runs, for a directory taken from dirs.
InitWith(dirs) ==
    /\ variant \in Variants
    /\ args \in ArgKinds
    /\ stdinData \in StdinKinds
    /\ args # "none" => stdinData = "empty"
    /\ dirEntries \in (IF args = "dir" THEN dirs ELSE {{}})
    /\ fsFiles \in (IF args = "dir" THEN {entryInfoList(dirEntries)}
                    ELSE IF args = "file"
                         THEN {<<[name |-> pngName(1), content |-> c]>> : c \in FileKinds}
                         ELSE {<<>>})
    /\ pc = "main"
    /\ exitCode = -1
    /\ windowShown = FALSE
    /\ initialized = FALSE
    /\ quitRequested = FALSE
    /\ imageFiles = <<>>
    /\ image = NullImage
    /\ shaderProgram = "null"
    /\ texture = NoTexture
    /\ liveTextures = 0
    /\ zoomLevel = ZoomOne
    /\ currentImageIndex = -1
    /\ title = NoTitle
    /\ frame = NoFrame
    /\ contextCurrent = FALSE
    /\ unboundGLCall = FALSE
    /\ imageSize = <<1, 1>>
    /\ windowSize = InitialWindowSize
    /\ mvp = <<One, One>>
    /\ lastEvent = NoEvent
    /\ loadedOnce = FALSE
    /\ firstLoadFailed = FALSE

Init == InitWith({directoryOf(l) : l \in FileLists})

stdinImageNoNullTest(v, data) == v = "grxiv" /\ data \in {"image", "null"}

\* Whether main, given no path, gets an image from standard input.
stdinImage(v, data) == v = "grxiv" /\ data = "image"

\* main, no positional argument, up to the construction of the viewer.
MainNoPath ==
    /\ pc = "main"
    /\ args = "none"
    /\ IF stdinImage(variant, stdinData)
       THEN /\ LET w == widgetFromImage([Widget EXCEPT !.title = GenericTitle], 1)
               IN Commit(w) /\ lastEvent' = Event("Main", w)
            /\ imageFiles' = ClipboardFiles
            /\ pc' = "constructed"
            /\ exitCode' = exitCode
       ELSE /\ pc' = "exited"
            /\ exitCode' = 1
            /\ lastEvent' = Event("Main", [Widget EXCEPT !.error = TRUE])
            /\ UNCHANGED <<imageFiles, image, shaderProgram, texture, liveTextures,
                           zoomLevel, currentImageIndex, title, quitRequested,
                           contextCurrent, unboundGLCall>>
    /\ loadedOnce' = stdinImage(variant, stdinData)
    /\ UNCHANGED <<envVars, viewVars, windowShown, initialized, frame, firstLoadFailed>>

\* main with a path, up to the construction of the viewer.
MainPath ==
    /\ pc = "main"
    /\ args # "none"
    /\ LET w == widgetFromPath(
                    [Widget EXCEPT !.title = IF variant = "grxiv" THEN PathTitle
                                             ELSE GenericTitle],
                    pathFiles(args, dirEntries, fsFiles), variant)
       IN Commit(w) /\ lastEvent' = Event("Main", w)
    /\ imageFiles' = pathFiles(args, dirEntries, fsFiles)
    /\ pc' = "constructed"
    /\ UNCHANGED <<envVars, viewVars, exitCode, windowShown, initialized, frame, loadedOnce,
                   firstLoadFailed>>

\* initializeGL as run by the toolkit, before or inside the event loop: the
\* first resize event makes the context current, calls initializeGL, makes
\* the context current again for the framebuffer and calls resizeGL.
RunInitializeGL(running) ==
    \E gl \in GLResults, created \in BOOLEAN :
        LET w == resizeGL(makeCurrent(
                     initializeGL(makeCurrent(Widget), imageFiles, variant, running,
                                  gl, created)))
        IN /\ Commit(w)
           /\ initialized' = TRUE
           /\ lastEvent' = Event("Init", w)
           /\ loadedOnce' = (loadedOnce \/ w.load = "ok")
           /\ firstLoadFailed' = (w.load = "fail")

\* viewer.show() followed by the entry into app.exec().  The toolkit runs
\* initializeGL either while the window is being shown or as the first
\* thing the event loop does.
Show ==
    /\ pc = "constructed"
    /\ windowShown' = TRUE
    /\ pc' = "exec"
    /\ \/ RunInitializeGL(FALSE)
       \/ UNCHANGED <<initialized, lastEvent, loadedOnce, firstLoadFailed, image,
                      shaderProgram, texture, liveTextures, zoomLevel,
                      currentImageIndex, title, quitRequested,
                      contextCurrent, unboundGLCall>>
    /\ UNCHANGED <<envVars, viewVars, exitCode, imageFiles, frame>>

InitializeGLEvent ==
    /\ pc = "exec"
    /\ ~initialized
    /\ ~quitRequested
    /\ RunInitializeGL(TRUE)
    /\ UNCHANGED <<envVars, viewVars, pc, exitCode, windowShown, imageFiles, frame>>

\* The event loop hands an event to the widget.
Dispatching == pc = "exec" /\ initialized /\ ~quitRequested

\* keyPressEvent; closing the only window ends the event loop.
keyPressEvent(w, key, files, v, created) ==
    IF key = "Q" THEN [w EXCEPT !.quit = TRUE]
    ELSE IF key = "Left" THEN loadPreviousImage(w, files, v, TRUE, created)
    ELSE IF key = "Right" THEN loadNextImage(w, files, v, TRUE, created)
    ELSE w

KeyPress(key, name) ==
    /\ Dispatching
    /\ \E created \in BOOLEAN :
          LET w == keyPressEvent(Widget, key, imageFiles, variant, created)
          IN /\ Commit(w)
             /\ lastEvent' = Event(name, w)
             /\ loadedOnce' = (loadedOnce \/ w.load = "ok")
    /\ UNCHANGED <<envVars, viewVars, pc, exitCode, windowShown, initialized, imageFiles, frame,
                   firstLoadFailed>>

Advance == KeyPress("Right", "Advance")
Retreat == KeyPress("Left", "Retreat")
Quit == KeyPress("Q", "Quit")

Wheel(up, name) ==
    /\ Dispatching
    /\ LET w == wheelEvent(Widget, up)
       IN /\ Commit(w)
          /\ lastEvent' = Event(name, w)
    /\ UNCHANGED <<envVars, viewVars, pc, exitCode, windowShown, initialized, imageFiles, frame,
                   loadedOnce, firstLoadFailed>>

ZoomIn == Wheel(TRUE, "ZoomIn")
ZoomOut == Wheel(FALSE, "ZoomOut")

\* A frame: the toolkit makes the context current and calls paintGL, which
\* begins with glClear.
Paint ==
    /\ Dispatching
    /\ frame' = paintGL(Widget)
    /\ LET w == glCall(makeCurrent(Widget))
       IN contextCurrent' = w.ctx /\ unboundGLCall' = w.unbound
    /\ UNCHANGED <<envVars, viewVars, pc, exitCode, windowShown, initialized, quitRequested,
                   imageFiles, image, shaderProgram, texture, liveTextures, zoomLevel,
                   currentImageIndex, title, lastEvent, loadedOnce,
                   firstLoadFailed>>

\* app.exec() returns 0 once a quit was requested; main returns and the
\* viewer, with its widget, is destroyed.
ExecReturn ==
    /\ pc = "exec"
    /\ quitRequested
    /\ Commit(destroyWidget(Widget))
    /\ pc' = "exited"
    /\ exitCode' = 0
    /\ UNCHANGED <<envVars, viewVars, windowShown, initialized, imageFiles, frame, lastEvent,
                   loadedOnce, firstLoadFailed>>

Next ==
    \/ MainNoPath
    \/ MainPath
    \/ Show
    \/ InitializeGLEvent
    \/ Advance
    \/ Retreat
    \/ Quit
    \/ ZoomIn
    \/ ZoomOut
    \/ Paint
    \/ ExecReturn

Spec == Init /\ [][Next]_vars

----------------------------------------------------------------------------
\* The resolution of a directory, over the directories made of these
\* entries: a.png, b.jpg, z.gif, c.txt, B.PNG (unreadable), the hidden file
\* .h.png and the subdirectory d.png.

DirectoryUniverse ==
    { [name |-> <<97, 46, 112, 110, 103>>, file |-> TRUE, content |-> "good"],
      [name |-> <<98, 46, 106, 112, 103>>, file |-> TRUE, content |-> "good"],
      [name |-> <<122, 46, 103, 105, 102>>, file |-> TRUE, content |-> "good"],
      [name |-> <<99, 46, 116, 120, 116>>, file |-> TRUE, content |-> "good"],
      [name |-> <<66, 46, 80, 78, 71>>, file |-> TRUE, content |-> "bad"],
      [name |-> <<46, 104, 46, 112, 110, 103>>, file |-> TRUE, content |-> "good"],
      [name |-> <<100, 46, 112, 110, 103>>, file |-> FALSE, content |-> "bad"] }

InitResolve ==
    /\ InitWith(SUBSET DirectoryUniverse)
    /\ args = "dir"

\* The session of a directory: construction, initialisation, navigation,
\* frames and the end.
NextResolve ==
    \/ MainPath
    \/ Show
    \/ InitializeGLEvent
    \/ Advance
    \/ Retreat
    \/ Quit
    \/ Paint
    \/ ExecReturn

SpecResolve == InitResolve /\ [][NextResolve]_vars

----------------------------------------------------------------------------
\* The frames of one loaded image, of any small size or of 1920x1080 or
\* 600x800, in a window the user resizes.

ImageSizes == ((1..MaxDim) \X (1..MaxDim)) \cup {<<1920, 1080>>, <<600, 800>>}
WindowSizes == ((1..MaxDim) \X (1..MaxDim)) \cup {InitialWindowSize}

\* The state after "grxiv file" has shown its window and loaded the file.
InitTransform ==
    /\ variant \in Variants
    /\ args = "file"
    /\ stdinData = "empty"
    /\ dirEntries = {}
    /\ fsFiles = <<[name |-> pngName(1), content |-> "good"]>>
    /\ pc = "exec"
    /\ exitCode = -1
    /\ windowShown = TRUE
    /\ initialized = TRUE
    /\ quitRequested = FALSE
    /\ imageFiles = fsFiles
    /\ image = 1
    /\ shaderProgram = "linked"
    /\ texture = 1
    /\ liveTextures = 1
    /\ zoomLevel = ZoomOne
    /\ currentImageIndex = 0
    /\ title = IF variant = "grxiv" THEN PositionTitle(0, 1) ELSE GenericTitle
    /\ frame = NoFrame
    /\ contextCurrent = TRUE
    /\ unboundGLCall = FALSE
    /\ imageSize \in ImageSizes
    /\ windowSize = InitialWindowSize
    /\ mvp = <<One, One>>
    /\ lastEvent = [NoEvent EXCEPT !.ev = "Init", !.load = "ok", !.upload = "ok"]
    /\ loadedOnce = TRUE
    /\ firstLoadFailed = FALSE

\* paintGL in a widget of size win: a frame that draws hands the shader the
\* transform of the image in the widget.
FrameIn(win) ==
    /\ Dispatching
    /\ windowSize' = win
    /\ frame' = paintGL(Widget)
    /\ mvp' = IF paintGL(Widget) # NoTexture
              THEN viewportTransform(imageSize, win, zoomLevel)
              ELSE mvp
    /\ LET w == glCall(makeCurrent(Widget))
       IN contextCurrent' = w.ctx /\ unboundGLCall' = w.unbound
    /\ UNCHANGED <<envVars, imageSize, pc, exitCode, windowShown, initialized,
                   quitRequested, imageFiles, image, shaderProgram, texture,
                   liveTextures, zoomLevel, currentImageIndex, title, lastEvent,
                   loadedOnce, firstLoadFailed>>

PaintTransform == FrameIn(windowSize)

\* The user resizes the window: resizeGL, then a frame in the new size.
ResizeWindow == \E win \in WindowSizes \ {windowSize} : FrameIn(win)

NextTransform ==
    \/ PaintTransform
    \/ ResizeWindow

SpecTransform == InitTransform /\ [][NextTransform]_vars

----------------------------------------------------------------------------
\* Properties.

LastIndex == Len(imageFiles) - 1
Showing == texture # NoTexture
AdvanceAtLast == Len(imageFiles) >= 1 /\ currentImageIndex = LastIndex /\ Advance
RetreatAtFirst == currentImageIndex = 0 /\ Retreat
Navigation == Advance \/ Retreat

\* C1: an Advance at the last index and a Retreat at index 0 attempt no
\* load and leave the index, the decoded image and the texture as they were.
C1_NoWraparound ==
    [][(AdvanceAtLast \/ RetreatAtFirst) =>
          /\ lastEvent'.load = "none"
          /\ UNCHANGED <<currentImageIndex, image, texture, liveTextures, title>>]_vars

C1_Witness ==
    /\ Showing
    /\ Len(imageFiles) >= 2
    /\ currentImageIndex = LastIndex
    /\ lastEvent.ev = "Advance"
    /\ lastEvent.load = "none"

\* C2: a load that fails during Advance or Retreat while an image is shown
\* leaves the index, the decoded image and the texture as they were.
C2_FailedLoadKeepsState ==
    [][(Showing /\ lastEvent'.load = "fail" /\ Navigation) =>
          UNCHANGED <<currentImageIndex, image, texture>>]_vars

\* C3: a load that fails during Advance or Retreat, after some load has
\* succeeded, does not request a quit.
C3_FailedLoadKeepsSession ==
    [][(loadedOnce /\ lastEvent'.load = "fail" /\ Navigation) => ~quitRequested']_vars

\* C4: once the first load, the one of initializeGL, has failed, nothing
\* is ever shown and the session is quitting or over.
C4_FirstLoadFailureTerminates ==
    firstLoadFailed => (~Showing /\ (quitRequested \/ pc = "exited"))

\* C5: the index is -1 until a load has succeeded and within the list
\* afterwards.
C5_IndexRange ==
    IF loadedOnce
    THEN 0 <= currentImageIndex /\ currentImageIndex < Len(imageFiles)
    ELSE currentImageIndex = -1

\* C6: the zoom factor stays within [0.1, 10.0]; a ZoomIn at 10.0 and a
\* ZoomOut at 0.1 leave it where it is.
C6_ZoomBounded ==
    [][/\ ZoomMin <= zoomLevel /\ zoomLevel <= ZoomMax
       /\ ZoomMin <= zoomLevel' /\ zoomLevel' <= ZoomMax
       /\ (zoomLevel = ZoomMax /\ ZoomIn) => zoomLevel' = ZoomMax
       /\ (zoomLevel = ZoomMin /\ ZoomOut) => zoomLevel' = ZoomMin]_vars

C6_Witness ==
    /\ zoomLevel = ZoomMax
    /\ lastEvent.ev = "ZoomIn"
    /\ loadedOnce

\* C7: a load that succeeds leaves the zoom factor at 1.0; an Advance or
\* Retreat that does nothing at a boundary leaves the zoom factor alone.
C7_LoadResetsZoom ==
    [][/\ (lastEvent'.load = "ok" /\ (Navigation \/ Show \/ InitializeGLEvent))
             => zoomLevel' = ZoomOne
       /\ (AdvanceAtLast \/ RetreatAtFirst) => zoomLevel' = zoomLevel]_vars

C7_Witness ==
    /\ lastEvent.ev = "Advance"
    /\ lastEvent.load = "ok"
    /\ lastEvent.zoomed
    /\ zoomLevel = ZoomOne

\* C8: at most one GL texture is live at any time, it is the one the widget
\* holds, and none is live once the process has exited.
C8_OneTexture ==
    /\ liveTextures <= 1
    /\ liveTextures = (IF texture # NoTexture THEN 1 ELSE 0)
    /\ pc = "exited" => liveTextures = 0

C8_Witness ==
    /\ lastEvent.ev \in {"Advance", "Retreat"}
    /\ lastEvent.destroyed
    /\ lastEvent.upload = "ok"
    /\ liveTextures = 1
    /\ texture = image

\* C9: for a directory without images the process exits with a non-zero
\* code and the window is never shown.
C9_EmptyDirectoryFatal ==
    (args = "dir" /\ fsFiles = <<>>) =>
        /\ ~windowShown
        /\ pc # "exec"
        /\ pc = "exited" => exitCode # 0

\* C10: without a path a viewer is constructed only for a standard input
\* that decodes to a non-null image; otherwise main returns 1 and no viewer
\* is constructed or shown.
C10_NoPathStart ==
    args = "none" =>
        /\ (pc \in {"constructed", "exec"} \/ windowShown) => stdinData = "image"
        /\ (stdinData # "image" /\ pc # "main") =>
              /\ pc = "exited"
              /\ exitCode = 1
              /\ ~windowShown
              /\ imageFiles = <<>>

C10_Witness ==
    /\ args = "none"
    /\ stdinData = "null"
    /\ variant = "grxiv"
    /\ pc = "exited"
    /\ exitCode = 1


\* C11: a frame draws only when a created texture and a linked shader
\* program both exist; otherwise it only clears, requests no quit and
\* changes no state of the widget.
C11_DrawNeedsTextureAndShader ==
    [][Paint =>
          /\ frame' # NoTexture => (texture # NoTexture /\ shaderProgram = "linked")
          /\ (texture = NoTexture \/ shaderProgram # "linked") =>
                /\ frame' = NoTexture
                /\ UNCHANGED <<quitRequested, pc, image, texture, liveTextures,
                               shaderProgram, zoomLevel, currentImageIndex, title>>]_vars

C11_Witness ==
    /\ frame = NoTexture
    /\ texture # NoTexture
    /\ shaderProgram = "unlinked"
    /\ ~quitRequested


\* C12: while an image is shown the title is the file name and position
\* of the displayed entry for a directory, and the generic application
\* name for a single file or a stream-supplied image.
C12_TitleBySourceKind ==
    Showing =>
        IF args = "dir"
        THEN title = PositionTitle(texture - 1, Len(imageFiles))
        ELSE title = GenericTitle


\* C13: a handler that takes an error branch writes at least one
\* diagnostic record.
C13_ErrorsAreReported == lastEvent.error => lastEvent.logged


\* The extensions the viewer recognises: jpg, jpeg, png, bmp, gif.
ImageExtensions ==
    { <<106, 112, 103>>, <<106, 112, 101, 103>>, <<112, 110, 103>>,
      <<98, 109, 112>>, <<103, 105, 102>> }

\* The name has an extension, the part after its last dot, and it is a
\* recognised one in some mix of upper and lower case.
HasImageExtension(name) ==
    \E i \in 1..Len(name) :
        /\ name[i] = 46
        /\ \A j \in (i + 1)..Len(name) : name[j] # 46
        /\ lowerCase(SubSeq(name, i + 1, Len(name))) \in ImageExtensions

\* imageFiles is in strictly ascending name order and holds exactly the
\* entries of wanted, each with its content.
ListsExactly(wanted) ==
    /\ \A i \in 1..(Len(imageFiles) - 1) :
          nameLess(imageFiles[i].name, imageFiles[i + 1].name)
    /\ {imageFiles[i] : i \in 1..Len(imageFiles)} = {fileInfo(x) : x \in wanted}

\* C14 as stated: once the widget is constructed for a directory, and from
\* then on, imageFiles holds exactly the regular files with a recognised
\* extension, in ascending name order.
C14_ListsAllImageFiles ==
    (args = "dir" /\ pc # "main") =>
        ListsExactly({x \in dirEntries : x.file /\ HasImageExtension(x.name)})

\* C14 amended: ... exactly the regular files that are not hidden and have
\* a recognised extension, in ascending name order.
C14_ListsVisibleImageFiles ==
    (args = "dir" /\ pc # "main") =>
        ListsExactly({x \in dirEntries :
                         x.file /\ ~isHidden(x.name) /\ HasImageExtension(x.name)})

C14_Witness ==
    /\ dirEntries = DirectoryUniverse
    /\ Len(imageFiles) = 4
    /\ imageFiles[1].name = <<66, 46, 80, 78, 71>>
    /\ imageFiles[2].name = <<97, 46, 112, 110, 103>>
    /\ imageFiles[3].name = <<98, 46, 106, 112, 103>>
    /\ imageFiles[4].name = <<122, 46, 103, 105, 102>>
    /\ currentImageIndex = 2
    /\ lastEvent.ev = "Retreat"
    /\ lastEvent.load = "ok"


\* The float quotient a / b of two values in hundredths, rounded to nearest.
floatDiv(a, b) ==
    LET p == (a * 1000000) \div b
    IN IF p < 10000 THEN (p + 50) \div 100
       ELSE IF p < 100000 THEN ((p + 500) \div 1000) * 10
       ELSE ((p + 5000) \div 10000) * 100

\* C15: ZoomIn sets the zoom to clamp(zoom * 1.1) and ZoomOut sets it to
\* clamp(zoom / 1.1); from a zoom whose ZoomIn result is not clamped, ZoomIn
\* followed by ZoomOut gives the zoom back.
C15_ZoomOutUndoesZoomIn ==
    [][/\ ZoomIn => zoomLevel' = clampZoom(floatMul(zoomLevel, 110))
       /\ ZoomOut => zoomLevel' = clampZoom(floatDiv(zoomLevel, 110))
       /\ (Dispatching /\ floatMul(zoomLevel, 110) <= ZoomMax)
             => wheelEvent(wheelEvent(Widget, TRUE), FALSE).zoomLevel = zoomLevel]_vars


\* C16: after an upload whose texture creation fails the widget holds no
\* texture handle, the texture it held before is destroyed, and no texture
\* is live.
C16_FailedUploadHoldsNothing ==
    lastEvent.upload = "fail" => (texture = NoTexture /\ liveTextures = 0)

C16_Witness ==
    /\ lastEvent.upload = "fail"
    /\ lastEvent.destroyed
    /\ lastEvent.ev \in {"Advance", "Retreat"}
    /\ image # NullImage
    /\ texture = NoTexture


\* C17: no OpenGL call is made while the context is not current, neither in
\* updateTexture (also when initializeGL calls it), nor in the frames, nor
\* in the destructor; updateTexture and the destructor leave the context
\* released.
C17_GLCallsHaveContext ==
    [][/\ ~unboundGLCall'
       /\ (lastEvent'.upload # "none" /\ Navigation) => ~contextCurrent'
       /\ (pc' = "exited" /\ ExecReturn) => ~contextCurrent']_vars

C17_Witness ==
    /\ args = "none"
    /\ lastEvent.ev = "Init"
    /\ lastEvent.upload = "ok"
    /\ contextCurrent
    /\ texture # NoTexture
    /\ frame = texture


\* C18: a frame that draws has a decoded image, one of width and height
\* above 0, to compute its transform from.
C18_DrawHasImage ==
    [][(image = NullImage /\ Paint) => frame' = NoTexture]_vars


\* The fraction a is at most 1; the fractions a and b are equal.
AtMostOne(a) == a[1] <= a[2]
SameFraction(a, b) == a[1] * b[2] = b[1] * a[2]

\* The scale factors fit the image into the window without distortion.
FitsUndistorted ==
    LET imageAspect == frac(imageSize[1], imageSize[2])
        windowAspect == frac(windowSize[1], windowSize[2])
        scaleX == mvp[1]
        scaleY == mvp[2]
    IN /\ AtMostOne(scaleX) /\ AtMostOne(scaleY)
       /\ scaleX = One \/ scaleY = One
       /\ SameFraction(<<scaleX[1] * scaleY[2], scaleX[2] * scaleY[1]>>,
                       <<imageAspect[1] * windowAspect[2],
                         imageAspect[2] * windowAspect[1]>>)
       /\ IF imageAspect[1] * windowAspect[2] > windowAspect[1] * imageAspect[2]
          THEN scaleX = One
          ELSE scaleY = One
       /\ (imageSize = <<1920, 1080>> /\ windowSize = <<800, 600>>)
             => mvp = <<One, <<3, 4>>>>
       /\ (imageSize = <<600, 800>> /\ windowSize = <<800, 600>>)
             => mvp = <<<<9, 16>>, One>>

\* C19: at zoom 1.0 a frame's scaleX and scaleY are at most 1, one of them
\* is 1, and scaleX / scaleY is imageAspect / windowAspect; 1920x1080 in
\* 800x600 gives (1, 0.75) and 600x800 in 800x600 gives (0.5625, 1).
C19_FitWithoutDistortion ==
    [][(zoomLevel = ZoomOne /\ (PaintTransform \/ ResizeWindow)) => FitsUndistorted']_vars

C19_Witness ==
    /\ imageSize = <<600, 800>>
    /\ windowSize = <<800, 600>>
    /\ zoomLevel = ZoomOne
    /\ frame = texture
    /\ mvp = <<<<9, 16>>, One>>


\* C20: with an image from standard input no event loads a file, the index
\* stays 0 and the image stays the one given; Advance and Retreat leave the
\* texture alone.
C20_StreamImageStays ==
    [][(args = "none" /\ pc = "exec") =>
          /\ currentImageIndex' = 0
          /\ image' = image
          /\ lastEvent'.load = "none"
          /\ Navigation => texture' = texture]_vars

C20_Witness ==
    /\ args = "none"
    /\ imageFiles = ClipboardFiles
    /\ lastEvent.ev = "Advance"
    /\ currentImageIndex = 0
    /\ texture = image
    /\ frame = texture
    /\ texture # NoTexture


\* The Empty state: no decoded image, no texture, the index at -1, and no
\* frame has drawn.
Empty ==
    /\ image = NullImage
    /\ texture = NoTexture
    /\ liveTextures = 0
    /\ currentImageIndex = -1
    /\ frame \in {NoFrame, NoTexture}

\* C21: once the path has resolved to no image, the viewer is in the Empty
\* state and stays there whatever events follow.
C21_EmptyForever ==
    (pc # "main" /\ args # "none" /\ Len(imageFiles) = 0) => Empty

C21_Witness ==
    /\ args \in {"invalid", "dir"}
    /\ Len(imageFiles) = 0
    /\ pc = "exec"
    /\ lastEvent.ev = "Advance"
    /\ lastEvent.zoomed
    /\ zoomLevel # ZoomOne
    /\ frame = NoTexture
    /\ Empty


\* C22: for a path, a live texture was uploaded from the entry at the
\* current index, and the decoded image is that entry's too.
C22_TextureOfCurrentEntry ==
    (args # "none" /\ texture # NoTexture) =>
        /\ texture = currentImageIndex + 1
        /\ image = currentImageIndex + 1

====
